---- MODULE Spec2Model ----
(***************************************************************************)
(* Model of extract_pdf.py: one try/except around subprocess.run and the   *)
(* two result prints, with an except-handler that prints the error.        *)
(*                                                                         *)
(* One behaviour fixes an environment (is textutil launchable, what the    *)
(* child writes and returns, how the script's standard output reacts to    *)
(* each write) and then runs the script MaxRuns times in fresh processes.  *)
(* Text is a sequence of tokens: a decoded character, or a literal piece   *)
(* of a message.  Only errors of class Exception are modelled; signals     *)
(* delivered to the interpreter are outside the model.  sys.stdout is      *)
(* write-through: a write that fails raises in the print call making it.   *)
(***************************************************************************)
EXTENDS Integers, Sequences, FiniteSets, TLC

\* Bounds of the model.
MaxBytes == 2        \* bytes the child writes to stdout and stderr together
MaxRuns == 2         \* how often the script is run in the same environment
MaxPartial == 1      \* tokens a failing write may emit before it raises

Runs == 1..MaxRuns

Min(a, b) == IF a < b THEN a ELSE b

\* ------------------------------------------------------------- environment

\* Bytes the child may write; "\\xff" is not valid in the locale encoding.
Bytes == {"a", "\r", "\n", "\\xff"}
Undecodable == {"\\xff"}

ByteSeqs(n) == UNION {[1..k -> Bytes] : k \in 0..n}

\* Exit statuses of the child: killed by a signal, success, failure.
ReturnCodes == {-9, 0, 1}

\* What Popen raises when the program cannot be executed.
LaunchErrors == {"FileNotFoundError", "PermissionError", "OSError"}

\* How one write to sys.stdout ends: completely, or raising after a part.
Faults ==
  {[fails |-> FALSE, accepted |-> 0]} \cup
  {[fails |-> TRUE, accepted |-> k] : k \in 0..MaxPartial}

NoFault == [fails |-> FALSE, accepted |-> 0]

\* The pairs (stdout bytes, stderr bytes) the child may have written.
Captures ==
  {s \in ByteSeqs(MaxBytes) \X ByteSeqs(MaxBytes) : Len(s[1]) + Len(s[2]) <= MaxBytes}

Environments ==
  {[launch |-> l, returncode |-> 0, rawOut |-> <<>>, rawErr |-> <<>>,
    faultResult |-> NoFault, faultExcept |-> f2] :
      l \in LaunchErrors, f2 \in Faults}
  \cup
  {[launch |-> "ok", returncode |-> rc, rawOut |-> s[1], rawErr |-> s[2],
    faultResult |-> f1, faultExcept |-> f2] :
      rc \in ReturnCodes, f1 \in Faults, f2 \in Faults, s \in Captures}

\* ------------------------------------------------------------ pure helpers

None == [type |-> "NoneType"]

\* Exception objects; str(e) is e.msg.
LaunchError(kind) ==
  [type |-> kind,
   msg |-> CASE kind = "FileNotFoundError" ->
                  "[Errno 2] No such file or directory: 'textutil'"
             [] kind = "PermissionError" ->
                  "[Errno 13] Permission denied: 'textutil'"
             [] OTHER -> "[Errno 5] Input/output error"]

DecodeError ==
  [type |-> "UnicodeDecodeError",
   msg |-> "'utf-8' codec can't decode byte 0xff: invalid start byte"]

WriteError == [type |-> "OSError", msg |-> "[Errno 28] No space left on device"]

\* The classes `except Exception` accepts.
ExceptionClasses ==
  {"OSError", "FileNotFoundError", "PermissionError", "UnicodeDecodeError"}

Caught_OSErrorOnly(e) == e.type \in {"OSError", "FileNotFoundError", "PermissionError"}

Caught(e) == e.type \in ExceptionClasses

CanDecode(raw) == \A i \in 1..Len(raw) : raw[i] \notin Undecodable

\* text=True: decode, then "\r\n" -> "\n", then "\r" -> "\n".
RECURSIVE TranslateNewlines(_)
TranslateNewlines(s) ==
  IF s = <<>> THEN <<>>
  ELSE IF Len(s) >= 2 /\ s[1] = "\r" /\ s[2] = "\n"
       THEN <<"\n">> \o TranslateNewlines(SubSeq(s, 3, Len(s)))
  ELSE IF s[1] = "\r" THEN <<"\n">> \o TranslateNewlines(Tail(s))
  ELSE <<s[1]>> \o TranslateNewlines(Tail(s))

Decode(raw) == TranslateNewlines(raw)

IsSuccess_Inverted(rc) == rc # 0

\* line 9: result.returncode == 0
IsSuccess(rc) == rc = 0

PrintLine_NoEnd(x) == x

\* print(x): the text of x, then end="\n".
PrintLine(x) == x \o <<"\n">>

StdoutText_Stripped(t) == SelectSeq(t, LAMBDA c : c # "\n")

\* line 10: the argument of print is result.stdout itself.
StdoutText(t) == t

ErrorText_Bare(s) == s

\* line 12: f"Error: {result.stderr}"
ErrorText(s) == <<"Error: ">> \o s

FailedText_NoDescription(e) == <<"Failed to extract PDF: ">>

\* line 14: f"Failed to extract PDF: {e}"
FailedText(e) == <<"Failed to extract PDF: ", e.msg>>

\* What reaches standard output of a write of `line` under `fault`.
Emitted(line, fault) ==
  IF fault.fails THEN SubSeq(line, 1, Min(fault.accepted, Len(line) - 1))
  ELSE line

\* --------------------------------------------------------------- the state

VARIABLES
  env,       \* the environment, the same for every run
  run,       \* the run in progress
  pc,        \* where the script is
  child,     \* the external process: "none", "running", "exited"
  result,    \* the CompletedProcess, or None
  exc,       \* the exception being propagated, or None
  outcome,   \* per run: NotRun, or the branch the run last entered
  out,       \* per run: what arrived on the script's standard output
  calls,     \* per run: the print calls made, and whether each raised
  attempts,  \* per run: how often the external tool was started
  exitCode   \* exit statuses of the finished runs, in order

vars == <<env, run, pc, child, result, exc, outcome, out, calls, attempts, exitCode>>

Init ==
  /\ env \in Environments
  /\ run = 1
  /\ pc = "start"
  /\ child = "none"
  /\ result = None
  /\ exc = None
  /\ outcome = [r \in Runs |-> "NotRun"]
  /\ out = [r \in Runs |-> <<>>]
  /\ calls = [r \in Runs |-> <<>>]
  /\ attempts = [r \in Runs |-> 0]
  /\ exitCode = <<>>

\* An exception raised inside the try block: to the handler if line 13 matches.
RaiseInTry(e) ==
  /\ exc' = e
  /\ pc' = IF Caught(e) THEN "except" ELSE "raise"

\* One print call at `site` of `text` under `fault`, and where it leaves the script.
DoPrint(site, text, fault) ==
  /\ out' = [out EXCEPT ![run] = @ \o Emitted(PrintLine(text), fault)]
  /\ calls' = [calls EXCEPT ![run] = Append(@, [site |-> site, raised |-> fault.fails])]

Spawn_FailsOnRerun ==
  /\ pc = "start"
  /\ attempts' = [attempts EXCEPT ![run] = @ + 1]
  /\ IF env.launch = "ok" /\ run = 1
       THEN /\ child' = "running"
            /\ pc' = "communicate"
            /\ exc' = exc
       ELSE /\ child' = child
            /\ RaiseInTry(LaunchError("OSError"))
  /\ UNCHANGED <<env, run, result, outcome, out, calls, exitCode>>

\* lines 7-8, subprocess.run: Popen starts the child or raises.
Spawn ==
  /\ pc = "start"
  /\ attempts' = [attempts EXCEPT ![run] = @ + 1]
  /\ IF env.launch = "ok"
       THEN /\ child' = "running"
            /\ pc' = "communicate"
            /\ exc' = exc
       ELSE /\ child' = child
            /\ RaiseInTry(LaunchError(env.launch))
  /\ UNCHANGED <<env, run, result, outcome, out, calls, exitCode>>

\* The external process terminates (no timeout is passed: it may also never).
ChildExit ==
  /\ child = "running"
  /\ child' = "exited"
  /\ UNCHANGED <<env, run, pc, result, exc, outcome, out, calls, attempts, exitCode>>

Communicate_NoWait ==
  /\ pc = "communicate"
  /\ IF CanDecode(env.rawOut) /\ CanDecode(env.rawErr)
       THEN /\ result' = [type |-> "CompletedProcess",
                          returncode |-> env.returncode,
                          stdout |-> Decode(env.rawOut),
                          stderr |-> Decode(env.rawErr)]
            /\ pc' = "branch"
            /\ exc' = exc
       ELSE /\ result' = result
            /\ RaiseInTry(DecodeError)
  /\ UNCHANGED <<env, run, child, outcome, out, calls, attempts, exitCode>>

\* lines 7-8, subprocess.run: communicate() blocks until the child is gone,
\* then decodes both captured streams (text=True), which may raise.
Communicate ==
  /\ pc = "communicate"
  /\ child = "exited"
  /\ IF CanDecode(env.rawOut) /\ CanDecode(env.rawErr)
       THEN /\ result' = [type |-> "CompletedProcess",
                          returncode |-> env.returncode,
                          stdout |-> Decode(env.rawOut),
                          stderr |-> Decode(env.rawErr)]
            /\ pc' = "branch"
            /\ exc' = exc
       ELSE /\ result' = result
            /\ RaiseInTry(DecodeError)
  /\ UNCHANGED <<env, run, child, outcome, out, calls, attempts, exitCode>>

\* lines 9-10: the success branch prints result.stdout.
PrintStdout ==
  /\ pc = "branch"
  /\ IsSuccess(result.returncode)
  /\ outcome' = [outcome EXCEPT ![run] = "Success"]
  /\ DoPrint("stdout", StdoutText(result.stdout), env.faultResult)
  /\ IF env.faultResult.fails
       THEN RaiseInTry(WriteError)
       ELSE pc' = "exit" /\ exc' = exc
  /\ UNCHANGED <<env, run, child, result, attempts, exitCode>>

\* lines 11-12: the other branch prints "Error: " and result.stderr.
PrintStderr ==
  /\ pc = "branch"
  /\ ~IsSuccess(result.returncode)
  /\ outcome' = [outcome EXCEPT ![run] = "ToolFailure"]
  /\ DoPrint("stderr", ErrorText(result.stderr), env.faultResult)
  /\ IF env.faultResult.fails
       THEN RaiseInTry(WriteError)
       ELSE pc' = "exit" /\ exc' = exc
  /\ UNCHANGED <<env, run, child, result, attempts, exitCode>>

Except_Retry ==
  /\ pc = "except"
  /\ outcome' = [outcome EXCEPT ![run] = "LaunchFailure"]
  /\ DoPrint("except", FailedText(exc), env.faultExcept)
  /\ IF attempts[run] < 2
       THEN pc' = "start" /\ exc' = None
       ELSE pc' = "exit" /\ exc' = exc
  /\ UNCHANGED <<env, run, child, result, attempts, exitCode>>

\* lines 13-14: the handler prints the error; nothing guards this print.
Except ==
  /\ pc = "except"
  /\ outcome' = [outcome EXCEPT ![run] = "LaunchFailure"]
  /\ DoPrint("except", FailedText(exc), env.faultExcept)
  /\ IF env.faultExcept.fails
       THEN pc' = "raise" /\ exc' = WriteError
       ELSE pc' = "exit" /\ exc' = exc
  /\ UNCHANGED <<env, run, child, result, attempts, exitCode>>

Exit_ToolStatus ==
  /\ pc = "exit"
  /\ pc' = "done"
  /\ exitCode' = Append(exitCode, IF result = None THEN 0 ELSE result.returncode)
  /\ UNCHANGED <<env, run, child, result, exc, outcome, out, calls, attempts>>

\* The end of the module is reached: the interpreter exits with status 0.
Exit ==
  /\ pc = "exit"
  /\ pc' = "done"
  /\ exitCode' = Append(exitCode, 0)
  /\ UNCHANGED <<env, run, child, result, exc, outcome, out, calls, attempts>>

\* An exception left the module: traceback on stderr, exit status 1.
Uncaught ==
  /\ pc = "raise"
  /\ pc' = "done"
  /\ exitCode' = Append(exitCode, 1)
  /\ UNCHANGED <<env, run, child, result, exc, outcome, out, calls, attempts>>

\* The script is run again: a new process, with nothing kept from the last.
Restart ==
  /\ pc = "done"
  /\ run < MaxRuns
  /\ run' = run + 1
  /\ pc' = "start"
  /\ child' = "none"
  /\ result' = None
  /\ exc' = None
  /\ UNCHANGED <<env, outcome, out, calls, attempts, exitCode>>

Next ==
  \/ Spawn
  \/ ChildExit
  \/ Communicate
  \/ PrintStdout
  \/ PrintStderr
  \/ Except
  \/ Exit
  \/ Uncaught
  \/ Restart

Spec == Init /\ [][Next]_vars

\* The script's own steps always proceed, and the external process terminates.
FairSpec ==
  /\ Spec
  /\ WF_vars(Spawn) /\ WF_vars(Communicate) /\ WF_vars(PrintStdout)
  /\ WF_vars(PrintStderr) /\ WF_vars(Except) /\ WF_vars(Exit) /\ WF_vars(Uncaught)
  /\ WF_vars(ChildExit)

\* ------------------------------------------------------------------ claims

Finished == pc = "done"

Ran == result # None

Called(r, site) == \E i \in 1..Len(calls[r]) : calls[r][i].site = site

NoWriteFailed(r) == \A i \in 1..Len(calls[r]) : ~calls[r][i].raised

HandlerWriteFailed(r) ==
  \E i \in 1..Len(calls[r]) : calls[r][i].site = "except" /\ calls[r][i].raised

ResultWriteFailed(r) ==
  \E i \in 1..Len(calls[r]) : calls[r][i].site # "except" /\ calls[r][i].raised

IsPrefix(p, s) == Len(p) <= Len(s) /\ p = SubSeq(s, 1, Len(p))

Messages ==
  {LaunchError(k).msg : k \in LaunchErrors} \cup {DecodeError.msg, WriteError.msg}

\* C1 as stated: the tool ran and exited 0 => the outcome is Success and the
\* script's output is exactly the captured stdout text, nothing added.
C1_Original ==
  (Finished /\ Ran /\ result.returncode = 0) =>
    /\ outcome[run] = "Success"
    /\ out[run] = result.stdout

\* C1 amended: the tool ran and exited 0 => the success branch is the one
\* taken (print of result.stdout is the first print call), and when no write
\* to standard output fails the outcome is Success and the output is exactly
\* the captured stdout text followed by the one newline that print adds.
C1_SuccessPrintsStdout ==
  (Finished /\ Ran /\ result.returncode = 0) =>
    /\ calls[run] # <<>> /\ calls[run][1].site = "stdout"
    /\ NoWriteFailed(run) =>
         /\ outcome[run] = "Success"
         /\ out[run] = result.stdout \o <<"\n">>

C1_Witness ==
  /\ Finished /\ Ran /\ result.returncode = 0 /\ NoWriteFailed(run)
  /\ result.stdout = <<"a", "\n">>
  /\ out[run] = <<"a", "\n", "\n">>

\* C2 as stated: the tool ran and exited non-zero => the outcome is
\* ToolFailure, the output is exactly "Error: " then the captured stderr
\* text, and the captured stdout is not printed.
C2_Original ==
  (Finished /\ Ran /\ result.returncode # 0) =>
    /\ outcome[run] = "ToolFailure"
    /\ out[run] = <<"Error: ">> \o result.stderr
    /\ ~Called(run, "stdout")

\* C2 amended: the tool ran and exited non-zero => the captured stdout is
\* never printed and the "Error: " print is the first print call; when no
\* write to standard output fails the outcome is ToolFailure and the output
\* is exactly "Error: ", the captured stderr text, and one newline.
C2_FailurePrintsStderr ==
  (Finished /\ Ran /\ result.returncode # 0) =>
    /\ ~Called(run, "stdout")
    /\ calls[run] # <<>> /\ calls[run][1].site = "stderr"
    /\ NoWriteFailed(run) =>
         /\ outcome[run] = "ToolFailure"
         /\ out[run] = <<"Error: ">> \o result.stderr \o <<"\n">>

C2_Witness ==
  /\ Finished /\ Ran /\ result.returncode = -9 /\ NoWriteFailed(run)
  /\ result.stderr = <<"a">>
  /\ out[run] = <<"Error: ", "a", "\n">>

\* C3 as stated: spawning raised => the outcome is LaunchFailure, the output
\* starts with "Failed to extract PDF: " followed by a non-empty description,
\* and neither the success text nor an "Error:" line is printed.
C3_Original ==
  (Finished /\ env.launch # "ok") =>
    /\ outcome[run] = "LaunchFailure"
    /\ Len(out[run]) >= 2
    /\ out[run][1] = "Failed to extract PDF: "
    /\ out[run][2] \in Messages /\ out[run][2] # ""
    /\ ~Called(run, "stdout") /\ ~Called(run, "stderr")

\* C3 amended: spawning raised => the outcome is LaunchFailure and the
\* handler's print is the only print call; when that write does not fail the
\* output is exactly "Failed to extract PDF: ", the non-empty description of
\* the error that spawning raised, and one newline.
C3_LaunchFailurePrintsDescription ==
  (Finished /\ env.launch # "ok") =>
    /\ outcome[run] = "LaunchFailure"
    /\ Len(calls[run]) = 1 /\ calls[run][1].site = "except"
    /\ NoWriteFailed(run) =>
         /\ exc.type = env.launch
         /\ exc.msg # ""
         /\ out[run] = <<"Failed to extract PDF: ", exc.msg, "\n">>

C3_Witness ==
  /\ Finished /\ env.launch = "FileNotFoundError" /\ NoWriteFailed(run)
  /\ out[run] = <<"Failed to extract PDF: ",
                  "[Errno 2] No such file or directory: 'textutil'", "\n">>

\* C4 as stated: no error ever leaves the script's top level, whether it is
\* raised while spawning, decoding, printing, or inside the handler.
C4_Original == pc # "raise"

\* C4 amended: every error of class Exception raised inside the try block
\* (spawning, decoding the captured streams, printing the result) is caught;
\* the only error that leaves the top level is one raised by the handler's
\* own print, which nothing guards.
C4_OnlyHandlerErrorsEscape ==
  /\ (exc # None /\ ~HandlerWriteFailed(run)) => pc \in {"except", "exit", "done"}
  /\ pc = "raise" =>
       /\ HandlerWriteFailed(run)
       /\ calls[run][Len(calls[run])].site = "except"
       /\ exc = WriteError

C4_Witness ==
  /\ Finished /\ exc.type = "UnicodeDecodeError"
  /\ exitCode[run] = 0
  /\ out[run] = <<"Failed to extract PDF: ", exc.msg, "\n">>

C6_Original == child = "exited" => outcome[run] # "LaunchFailure"

\* C6 amended: LaunchFailure occurs only when an error was raised inside the
\* try block: the tool could not be launched, or it ran to completion and
\* decoding its captured streams or writing the result line failed.  When the
\* process ran to completion, its streams decoded and no write failed, the
\* outcome is Success or ToolFailure according to the exit status.
C6_LaunchFailureOnlyAfterError ==
  /\ outcome[run] = "LaunchFailure" =>
       \/ env.launch # "ok"
       \/ ~(CanDecode(env.rawOut) /\ CanDecode(env.rawErr))
       \/ ResultWriteFailed(run)
  /\ (Finished /\ Ran /\ NoWriteFailed(run)) =>
       outcome[run] = IF result.returncode = 0 THEN "Success" ELSE "ToolFailure"

C6_Witness ==
  /\ Finished /\ child = "exited" /\ outcome[run] = "LaunchFailure"
  /\ ~CanDecode(env.rawErr) /\ env.returncode = 0

C8_Original ==
  [][\A r \in Runs : outcome[r] # "NotRun" => outcome'[r] = outcome[r]]_vars

\* C8 amended: every run starts in NotRun and, given that the external
\* process terminates or fails to launch, finishes with exactly one of
\* Success, ToolFailure, LaunchFailure.  An outcome never goes back to NotRun;
\* the only change of outcome is from Success or ToolFailure to LaunchFailure
\* (when writing the result line raises), and LaunchFailure is never left.
C8_Lifecycle ==
  /\ [](pc = "start" => outcome[run] = "NotRun")
  /\ \A r \in Runs :
       [](run = r => <>(Len(exitCode) >= r
                        /\ outcome[r] \in {"Success", "ToolFailure", "LaunchFailure"}))
  /\ [][\A r \in Runs :
          outcome[r] # "NotRun" => outcome'[r] \in {outcome[r], "LaunchFailure"}]_vars

C8_Witness ==
  /\ Finished /\ outcome[run] = "LaunchFailure"
  /\ Len(calls[run]) = 2 /\ calls[run][1].site = "stdout"

\* The three forms of output, each as print writes it.
IsStdoutForm(o) == Ran /\ o = result.stdout \o <<"\n">>

IsErrorForm(o) == Ran /\ o = <<"Error: ">> \o result.stderr \o <<"\n">>

IsFailedForm(o) ==
  Len(o) = 3 /\ o[1] = "Failed to extract PDF: " /\ o[2] \in Messages /\ o[3] = "\n"

\* C9 as stated: the output of a run is exactly one of the three forms (the
\* extracted text, one "Error:" line, one "Failed to extract PDF:" line) and
\* never a mixture.
C9_Original ==
  Finished =>
    \/ IsStdoutForm(out[run])
    \/ IsErrorForm(out[run])
    \/ IsFailedForm(out[run])

\* C9 amended: when no write to standard output fails, the output of a run is
\* exactly one of the three forms, each ended by one newline.  In every run
\* the success text and the "Error:" line are never both printed, and the
\* output is a (possibly empty or cut) result text followed by at most one
\* (possibly cut) "Failed to extract PDF:" line, which comes last and follows
\* a result text only when writing that text failed.
C9_OutputForms ==
  Finished =>
    /\ NoWriteFailed(run) =>
         \/ IsStdoutForm(out[run])
         \/ IsErrorForm(out[run])
         \/ IsFailedForm(out[run])
    /\ ~(Called(run, "stdout") /\ Called(run, "stderr"))
    /\ \E k \in 0..Len(out[run]) :
         LET a == SubSeq(out[run], 1, k)
             b == SubSeq(out[run], k + 1, Len(out[run]))
         IN /\ \/ a = <<>>
               \/ /\ Ran
                  /\ \/ IsPrefix(a, result.stdout \o <<"\n">>)
                     \/ IsPrefix(a, <<"Error: ">> \o result.stderr \o <<"\n">>)
            /\ \/ b = <<>>
               \/ \E m \in Messages :
                    IsPrefix(b, <<"Failed to extract PDF: ", m, "\n">>)
            /\ (a # <<>> /\ b # <<>>) => ResultWriteFailed(run)

C9_Witness ==
  /\ Finished /\ Ran /\ result.returncode = 0
  /\ out[run] = <<"a", "Failed to extract PDF: ", WriteError.msg, "\n">>

\* C10: in every run the external tool is started at most once, whatever the
\* outcome, and nothing is printed before that one attempt has terminated or
\* failed to launch.
C10_SingleBlockingAttempt ==
  /\ \A r \in Runs : attempts[r] <= 1
  /\ \A r \in Runs : calls[r] # <<>> => attempts[r] = 1
  /\ (calls[run] # <<>> \/ out[run] # <<>>) => child # "running"

C10_Witness ==
  /\ Finished /\ outcome[run] = "LaunchFailure" /\ attempts[run] = 1
  /\ run = MaxRuns /\ attempts[1] = 1 /\ outcome[1] = "LaunchFailure"

====
